---- MODULE Spec2Model ----
(***************************************************************************)
(* benchit: the load-test harness of actix-node-benchmark                  *)
(* (src/benchit/src/main.rs).  main() sweeps scenario x concurrency level  *)
(* x backend; for each combination it launches the external tool wrk as a  *)
(* child process, optionally samples the process table while the child    *)
(* runs, parses the child's report, prints a row and appends a Results     *)
(* entry; at the end of a scenario it prints the charts and truncates the  *)
(* list.                                                                   *)
(*                                                                         *)
(* Numbers.  A latency is an f32, kept as its significand and exponent and *)
(* computed with the roundings of IEEE 754 single precision; a cpu         *)
(* percentage is an integer number of tenths of a percent.  Time is        *)
(* counted in whole seconds since the launch of the current child.         *)
(*                                                                         *)
(* Evaluation.  Rust evaluates the arguments of a call once, before the    *)
(* call.  Where that matters for the size of an expression the definition  *)
(* is written CHOOSE v \in {F(a) : a \in {x}} : TRUE, which is F(x) with    *)
(* x evaluated once, and an action binds a result with \E r \in {..}.      *)
(***************************************************************************)
EXTENDS Integers, Sequences, FiniteSets, TLC

VARIABLES
    opt,        \* Opt: the parsed command line (max_concurrency, monitor, time)
    tool,       \* environment: what wrk can do on this host
    table,      \* environment: the process table of this host
    pc,         \* position of main() in its body
    test,       \* index in Tests of the scenario of the outer for loop
    c,          \* the u16 concurrency counter
    sol,        \* index in Sols of the backend of the inner for loop
    wrk,        \* the future returned by wrk(..).output(): the child process
    alive,      \* environment: the wrk processes of the harness that are alive
    now,        \* seconds elapsed since the current child was launched
    deadline,   \* the instant at which the pending delay_for completes
    procs,      \* monitor_processes: the snapshot taken before the delay
    proc_stats, \* the ProcessesReport of the current iteration
    wrk_stats,  \* the WrkStats of the current iteration
    results,    \* Vec<Results>
    stdout      \* everything println! has written so far

vars == <<opt, tool, table, pc, test, c, sol, wrk, alive, now, deadline, procs,
          proc_stats, wrk_stats, results, stdout>>

-----------------------------------------------------------------------------
(* Bounds of the model *)

\* largest max_concurrency explored with every tool behaviour
MaxMC == 3
\* longest measurement time (seconds) explored
MaxTime == 9
\* cap on the length of the result list (reached only when the counter wraps)
MaxResults == 34
\* most levels of a list handed to print_charts on its own
MaxChartLevels == 2
\* most lines of a report handed to process_wrk on its own
MaxReportLines == 3

-----------------------------------------------------------------------------
(* Program constants *)

\* u16: the width of Opt.max_concurrency and of the counter c
U16Bits == 16
U16Max == 2^U16Bits - 1
\* faulty variant of SettleSecs: a window one second longer
SettleSecsLonger == 5 + 1
\* delay_for(Duration::from_secs(5)) in monitor_processes
SettleSecs == 5
\* print_charts(&results, 100)
ChartWidth == 100

\* for test in &["", "?summary=wherever&full=true&limit=10"]
Tests == <<"", "?summary=wherever&full=true&limit=10">>
\* for sol in &[("node", ..), ("actix", ..)]
Sols == <<"node", "actix">>

-----------------------------------------------------------------------------
(* Text.  A string is a sequence of characters, each a one-character       *)
(* string; a byte vector that is valid UTF-8 is the string it decodes to.  *)

NL == "\n"
\* a decimal digit outside ASCII (ARABIC-INDIC DIGIT THREE): \d and \w of the
\* regex crate match it, str::parse does not accept it
ArabicThree == "U+0663"

AsciiDigits == <<"0", "1", "2", "3", "4", "5", "6", "7", "8", "9">>
Letters ==
    {"a","b","c","d","e","f","g","h","i","j","k","l","m","n","o","p","q",
     "r","s","t","u","v","w","x","y","z","A","B","C","D","E","F","G","H",
     "I","J","K","L","M","N","O","P","Q","R","S","T","U","V","W","X","Y",
     "Z"}

IsAsciiDigit(ch) == \E d \in 1..10 : AsciiDigits[d] = ch
DigitVal(ch) == (CHOOSE d \in 1..10 : AsciiDigits[d] = ch) - 1

\* the character classes \s, \d and \w of the regex crate
InClass(cls, ch) ==
    CASE cls = "s" -> ch \in {" ", "\t", NL, "\r"}
      [] cls = "d" -> IsAsciiDigit(ch) \/ ch = ArabicThree
      [] cls = "w" -> IsAsciiDigit(ch) \/ ch = ArabicThree \/ ch \in Letters
                      \/ ch = "_"

\* s[i..j-1]
Slice(s, i, j) == SubSeq(s, i, j - 1)

\* does the literal lit occur in s at position i
HasAt(s, i, lit) ==
    /\ i + Len(lit) - 1 <= Len(s)
    /\ \A k \in 1..Len(lit) : s[i + k - 1] = lit[k]

\* str::contains: lit occurs somewhere in s (case-sensitive)
Contains(s, lit) == \E i \in 1..(Len(s) + 1) : HasAt(s, i, lit)

\* the position after the longest run of characters of class cls from i on
RECURSIVE RunEnd(_, _, _)
RunEnd(s, i, cls) ==
    IF i <= Len(s) /\ InClass(cls, s[i]) THEN RunEnd(s, i + 1, cls) ELSE i

\* str::lines: the text split at "\n", a final "\r" of a line removed, no
\* empty line after the last "\n"
RECURSIVE lines(_)
lines(text) ==
    IF text = <<>> THEN <<>>
    ELSE LET nl == IF \E i \in 1..Len(text) : text[i] = NL
                   THEN CHOOSE i \in 1..Len(text) :
                            /\ text[i] = NL
                            /\ \A k \in 1..(i - 1) : text[k] # NL
                   ELSE Len(text) + 1
             raw == Slice(text, 1, nl)
             line == IF raw # <<>> /\ raw[Len(raw)] = "\r"
                     THEN Slice(raw, 1, Len(raw)) ELSE raw
         IN  <<line>> \o lines(Slice(text, nl + 1, Len(text) + 1))

-----------------------------------------------------------------------------
(* f32.  A finite non-negative f32 is [m, e], the number m * 2^e, with     *)
(* m = 0 (zero) or 2^23 <= m < 2^24.  Every operation rounds its exact     *)
(* result to the nearest such number, ties to the even significand.  The   *)
(* numbers of the model stay far from the subnormal and the infinite       *)
(* range, and every intermediate integer stays below 2^31.                 *)

\* the bits of the significand of an f32
F32MantBits == 24
F32Top == 2^F32MantBits
F32Half == 2^(F32MantBits - 1)

F32Zero == [m |-> 0, e |-> 0]

\* the f32 nearest to (q + r/d) * 2^e, for integers q >= 0 and 0 <= r < d:
\* the significand is brought between 2^23 and 2^24 a bit at a time, then
\* rounded
RECURSIVE F32Round(_, _, _, _)
F32Round(q, r, d, e) ==
    IF q = 0 /\ r = 0 THEN F32Zero
    ELSE IF q < F32Half
    THEN CHOOSE v \in {F32Round(q2, r2, d, e2) :
                          q2 \in {2 * q + (IF 2 * r >= d THEN 1 ELSE 0)},
                          r2 \in {(2 * r) % d}, e2 \in {e - 1}} : TRUE
    ELSE IF q >= F32Top
    THEN CHOOSE v \in {F32Round(q2, r2, d2, e2) :
                          q2 \in {q \div 2}, r2 \in {(q % 2) * d + r},
                          d2 \in {2 * d}, e2 \in {e + 1}} : TRUE
    ELSE LET up == 2 * r > d \/ (2 * r = d /\ q % 2 = 1)
             m  == IF up THEN q + 1 ELSE q
         IN  IF m = F32Top THEN [m |-> F32Half, e |-> e + 1]
             ELSE [m |-> m, e |-> e]

F32Norm(q, r, d, e) ==
    CHOOSE v \in {F32Round(q1, r1, d1, e1) :
                     q1 \in {q}, r1 \in {r}, d1 \in {d}, e1 \in {e}} : TRUE

\* the f32 nearest to the fraction n / d
F32FromRatio(n, d) == F32Norm(n \div d, n % d, d, 0)

\* usize as f32
F32FromInt(n) == F32Norm(n, 0, 1, 0)

\* x * y: the 48-bit product of the significands from their 12-bit halves
F32Product(x, y) ==
    IF x.m = 0 \/ y.m = 0 THEN F32Zero
    ELSE LET h   == 2^(F32MantBits \div 2)
             a   == x.m \div h
             b   == x.m % h
             cc  == y.m \div h
             d   == y.m % h
             mid == a * d + b * cc
             low == (mid % h) * h + b * d
             hi  == a * cc + mid \div h + low \div F32Top
         IN  F32Norm(hi, low % F32Top, F32Top, F32MantBits + x.e + y.e)

F32Mul(x, y) == CHOOSE v \in {F32Product(a, b) : a \in {x}, b \in {y}} : TRUE

\* x / y for y > 0
F32Quotient(x, y) ==
    IF x.m = 0 THEN F32Zero
    ELSE LET q == F32FromRatio(x.m, y.m)
         IN  [m |-> q.m, e |-> q.e + x.e - y.e]

F32Div(x, y) == CHOOSE v \in {F32Quotient(a, b) : a \in {x}, b \in {y}} : TRUE

\* x < y
F32Lt(x, y) ==
    /\ y.m # 0
    /\ x.m = 0 \/ x.e < y.e \/ (x.e = y.e /\ x.m < y.m)

\* f32::max
F32Greater(x, y) == IF F32Lt(x, y) THEN y ELSE x

F32Max(x, y) == CHOOSE v \in {F32Greater(a, b) : a \in {x}, b \in {y}} : TRUE

\* x as usize: the fraction is dropped
F32ToUsize(x) ==
    IF x.m = 0 \/ -x.e >= F32MantBits THEN 0
    ELSE IF x.e >= 0 THEN x.m * 2^x.e
    ELSE x.m \div 2^(-x.e)

-----------------------------------------------------------------------------
(* process_wrk: the report parser *)

NoMatch == [matched |-> FALSE]

LatencyLit == <<"L", "a", "t", "e", "n", "c", "y">>
RequestsLit == <<"R", "e", "q", "u", "e", "s", "t", "s", "/", "s", "e", "c", ":">>

\* Latency\s+(\d+\.\d+)(\w+) tried at position i of the line.  Every
\* quantifier is greedy; the only backtracking that can succeed gives the
\* last digit of the fraction to (\w+) when no word character follows it.
latency_re_at(s, i) ==
    IF ~HasAt(s, i, LatencyLit) THEN NoMatch
    ELSE LET a  == i + Len(LatencyLit)
             d  == RunEnd(s, a, "s")
             p  == RunEnd(s, d, "d")
             f  == p + 1
             e  == RunEnd(s, f, "d")
             w  == RunEnd(s, e, "w")
         IN  IF d = a \/ p = d \/ p > Len(s) \/ s[p] # "." \/ e = f
             THEN NoMatch
             ELSE IF w > e
             THEN [matched |-> TRUE, whole |-> Slice(s, d, p),
                   frac |-> Slice(s, f, e), unit |-> Slice(s, e, w)]
             ELSE IF e - f >= 2
             THEN [matched |-> TRUE, whole |-> Slice(s, d, p),
                   frac |-> Slice(s, f, e - 1), unit |-> Slice(s, e - 1, e)]
             ELSE NoMatch

\* Requests/sec:\s+(\d+) tried at position i of the line
rps_re_at(s, i) ==
    IF ~HasAt(s, i, RequestsLit) THEN NoMatch
    ELSE LET a == i + Len(RequestsLit)
             d == RunEnd(s, a, "s")
             e == RunEnd(s, d, "d")
         IN  IF d = a \/ e = d THEN NoMatch
             ELSE [matched |-> TRUE, digits |-> Slice(s, d, e)]

\* Regex::captures: the match at the leftmost position that has one
latency_re(s) ==
    IF \E i \in 1..Len(s) : latency_re_at(s, i).matched
    THEN latency_re_at(s, CHOOSE i \in 1..Len(s) :
                              /\ latency_re_at(s, i).matched
                              /\ \A k \in 1..(i - 1) : ~latency_re_at(s, k).matched)
    ELSE NoMatch

rps_re(s) ==
    IF \E i \in 1..Len(s) : rps_re_at(s, i).matched
    THEN rps_re_at(s, CHOOSE i \in 1..Len(s) :
                          /\ rps_re_at(s, i).matched
                          /\ \A k \in 1..(i - 1) : ~rps_re_at(s, k).matched)
    ELSE NoMatch

AllAscii(ds) == \A k \in 1..Len(ds) : IsAsciiDigit(ds[k])

\* the value of a string of ASCII digits
RECURSIVE DecVal(_)
DecVal(ds) ==
    IF ds = <<>> THEN 0
    ELSE 10 * DecVal(Slice(ds, 1, Len(ds))) + DigitVal(ds[Len(ds)])

RECURSIVE StripZeros(_)
StripZeros(ds) ==
    IF ds # <<>> /\ ds[1] = "0" THEN StripZeros(Tail(ds)) ELSE ds

\* usize::MAX on a 64-bit target, 18446744073709551615, as its digits
UsizeMaxDigits ==
    <<"1","8","4","4","6","7","4","4","0","7","3","7","0","9","5","5","1",
      "6","1","5">>

\* a <= b for two digit strings of the same length
RECURSIVE DigitsLeq(_, _)
DigitsLeq(a, b) ==
    IF a = <<>> THEN TRUE
    ELSE IF DigitVal(a[1]) # DigitVal(b[1]) THEN DigitVal(a[1]) < DigitVal(b[1])
    ELSE DigitsLeq(Tail(a), Tail(b))

\* does the digit string denote a number that fits usize
FitsUsize(ds) ==
    LET n == StripZeros(ds)
    IN  \/ Len(n) < Len(UsizeMaxDigits)
        \/ Len(n) = Len(UsizeMaxDigits) /\ DigitsLeq(n, UsizeMaxDigits)

\* "<digits>".parse::<usize>()
parse_usize(ds) ==
    IF AllAscii(ds) /\ FitsUsize(ds)
    THEN [ok |-> TRUE, val |-> DecVal(StripZeros(ds))]
    ELSE [ok |-> FALSE]

\* "<whole>.<frac>".parse::<f32>(): the f32 nearest to the decimal number
\* (the latencies of the model have at most nine digits)
parse_f32(whole, fr) ==
    IF AllAscii(whole) /\ AllAscii(fr)
    THEN [ok |-> TRUE,
          val |-> F32FromRatio(DecVal(StripZeros(whole \o fr)), 10^Len(fr))]
    ELSE [ok |-> FALSE]

\* faulty variant of scale_latency: the arms of "s" and "us" exchanged
scale_latency_swapped(val, unit) ==
    CASE unit = <<"s">> -> F32Mul(val, F32FromRatio(1, 1000))
      [] unit = <<"u", "s">> -> F32Mul(val, F32FromInt(1000))
      [] OTHER -> F32Mul(val, F32FromInt(1))
\* res.latency *= match unit { "s" => 1000f32, "us" => 0.001f32, _ => 1f32 }
scale_latency(val, unit) ==
    CASE unit = <<"s">> -> F32Mul(val, F32FromInt(1000))
      [] unit = <<"u", "s">> -> F32Mul(val, F32FromRatio(1, 1000))
      [] OTHER -> F32Mul(val, F32FromInt(1))

\* #[derive(Default)] struct WrkStats
WrkStatsDefault == [latency |-> F32Zero, rps |-> 0]

\* faulty variant of process_line: a field that was read is not read again
\* (the first matching line wins)
process_line_first(res, line) ==
    LET lat == latency_re(line)
        rps == rps_re(line)
        lv  == parse_f32(lat.whole, lat.frac)
        rv  == parse_usize(rps.digits)
        r1  == IF lat.matched /\ res.latency = F32Zero
               THEN [res EXCEPT !.latency = scale_latency(lv.val, lat.unit)]
               ELSE res
    IN  IF lat.matched /\ ~lv.ok THEN [ok |-> FALSE]
        ELSE IF rps.matched /\ ~rv.ok THEN [ok |-> FALSE]
        ELSE [ok |-> TRUE,
              stats |-> IF rps.matched /\ res.rps = 0
                        THEN [r1 EXCEPT !.rps = rv.val] ELSE r1]
\* the body of the for loop of process_wrk for one line
process_line(res, line) ==
    LET lat == latency_re(line)
        rps == rps_re(line)
        lv  == parse_f32(lat.whole, lat.frac)
        rv  == parse_usize(rps.digits)
        r1  == IF lat.matched
               THEN [res EXCEPT !.latency = scale_latency(lv.val, lat.unit)]
               ELSE res
    IN  IF lat.matched /\ ~lv.ok THEN [ok |-> FALSE]
        ELSE IF rps.matched /\ ~rv.ok THEN [ok |-> FALSE]
        ELSE [ok |-> TRUE,
              stats |-> IF rps.matched THEN [r1 EXCEPT !.rps = rv.val] ELSE r1]

\* the for loop of process_wrk from the WrkStats res on, over the lines ls;
\* an error ends it
RECURSIVE process_lines(_, _)
process_lines(res, ls) ==
    IF ls = <<>> THEN [ok |-> TRUE, stats |-> res]
    ELSE CHOOSE v \in {IF r.ok THEN process_lines(r.stats, rest) ELSE r :
                          r \in {process_line(res, Head(ls))},
                          rest \in {Tail(ls)}} : TRUE

\* faulty variant of process_wrk: an error yields the default WrkStats
\* (unwrap_or_default in place of `?`)
process_wrk_lenient(out) ==
    LET r == IF ~out.utf8 THEN [ok |-> FALSE]
             ELSE process_lines(WrkStatsDefault, lines(out.text))
    IN  IF r.ok THEN r ELSE [ok |-> TRUE, stats |-> WrkStatsDefault]
\* process_wrk(out): out.utf8 says whether the bytes are valid UTF-8
process_wrk(out) ==
    IF ~out.utf8 THEN [ok |-> FALSE]
    ELSE CHOOSE v \in {process_lines(WrkStatsDefault, ls) :
                          ls \in {lines(out.text)}} : TRUE

-----------------------------------------------------------------------------
(* Reports the load generator prints in the model *)

ReportMs ==
    <<" "," ","L","a","t","e","n","c","y"," "," "," ","1","2",".","3","4",
      "m","s"," "," "," ","1",".","2","0","m","s",NL,"R","e","q","u","e",
      "s","t","s","/","s","e","c",":"," "," "," ","1","2","3","4",".","5",
      "6",NL>>
ReportUs ==
    <<" "," ","L","a","t","e","n","c","y"," "," "," ","3","0","0",".","0",
      "0","u","s",NL,"R","e","q","u","e","s","t","s","/","s","e","c",":",
      " ","7",NL>>
ReportS ==
    <<" "," ","L","a","t","e","n","c","y"," "," "," ","1",".","2","0","0",
      "s",NL,"R","e","q","u","e","s","t","s","/","s","e","c",":"," ","5",
      "2",".","1","0",NL>>
ReportRefused ==
    <<"u","n","a","b","l","e"," ","t","o"," ","c","o","n","n","e","c","t",
      " ","t","o"," ","1","2","7",".","0",".","0",".","1",":","3","0","0",
      "0"," ","C","o","n","n","e","c","t","i","o","n"," ","r","e","f","u",
      "s","e","d",NL>>
ReportHugeRps ==
    <<" "," ","L","a","t","e","n","c","y"," "," "," ","1",".","0","0","m",
      "s",NL,"R","e","q","u","e","s","t","s","/","s","e","c",":"," ","9",
      "9","9","9","9","9","9","9","9","9","9","9","9","9","9","9","9","9",
      "9","9",NL>>

\* what the child does when it ends: its exit status and the bytes it has
\* written to its standard output
Behaviour(status, utf8, text) == [status |-> status, utf8 |-> utf8, text |-> text]

ReportNonAscii ==
    <<"L","a","t","e","n","c","y"," ","1",".",ArabicThree,"m","s",NL>>

\* lines a report of the load generator can hold
LineLatencyMs ==
    <<" "," "," "," ","L","a","t","e","n","c","y"," "," "," "," ","1","2",
      ".","3","4","m","s"," "," "," "," ","1",".","2","0","m","s">>
LineLatencyS ==
    <<"L","a","t","e","n","c","y"," ","1",".","2","0","0","s">>
LineLatencyUs ==
    <<" "," "," "," ","L","a","t","e","n","c","y"," "," "," ","3","0","0",
      ".","0","0","u","s"," "," "," ","2","0",".","0","0","u","s">>
LineLatencyWhole ==
    <<"L","a","t","e","n","c","y"," ","3","0","0","u","s">>
LineRequests ==
    <<"R","e","q","u","e","s","t","s","/","s","e","c",":"," "," "," ","1",
      "2","3","4",".","5","6">>
LineRequestsFew ==
    <<"R","e","q","u","e","s","t","s","/","s","e","c",":"," ","7">>
LineRunning ==
    <<"R","u","n","n","i","n","g"," ","1","0","s"," ","t","e","s","t"," ",
      "@"," ","h","t","t","p",":","/","/","x">>
LineBoth ==
    <<"L","a","t","e","n","c","y"," ","2",".","5","0","m","i","n"," ","R",
      "e","q","u","e","s","t","s","/","s","e","c",":"," ","9">>
LineRequestsHuge ==
    <<"R","e","q","u","e","s","t","s","/","s","e","c",":"," ","9","9","9",
      "9","9","9","9","9","9","9","9","9","9","9","9","9","9","9","9","9">>

ParserLines ==
    << LineLatencyMs, LineLatencyS, LineLatencyUs, LineLatencyWhole,
       LineRequests, LineRequestsFew, LineRunning, LineBoth,
       LineRequestsHuge >>

\* the report number j of at most n lines: the digits of j to the base
\* Len(ParserLines) + 1 name its lines, the digit 0 being no line
RECURSIVE ParserReport(_, _)
ParserReport(j, n) ==
    IF n = 0 THEN <<>>
    ELSE LET k == j % (Len(ParserLines) + 1)
         IN  (IF k = 0 THEN <<>> ELSE ParserLines[k] \o <<NL>>)
             \o ParserReport(j \div (Len(ParserLines) + 1), n - 1)

\* the number of reports of at most MaxReportLines of these lines
ParserReports == (Len(ParserLines) + 1)^MaxReportLines

ToolBehaviours ==
    << Behaviour(0, TRUE, ReportMs),         \* 1: a full report
       Behaviour(1, TRUE, ReportRefused),    \* 2: no report, failed exit
       Behaviour(0, FALSE, <<>>),            \* 3: bytes that are not UTF-8
       Behaviour(0, TRUE, ReportHugeRps),    \* 4: a number too big for usize
       Behaviour(0, TRUE, ReportNonAscii),   \* 5: a digit parse() rejects
       Behaviour(0, TRUE, ReportUs),         \* 6
       Behaviour(1, TRUE, ReportS) >>        \* 7: a report and a failed exit

\* the behaviour number b: one of ToolBehaviours, or after them a child
\* that exits with status 0 and has printed one of the reports
ToolBehaviour(b) ==
    IF b <= Len(ToolBehaviours) THEN ToolBehaviours[b]
    ELSE Behaviour(0, TRUE,
                   ParserReport(b - Len(ToolBehaviours) - 1, MaxReportLines))
\* the numbers of the behaviours that print these reports
ParserTool == (Len(ToolBehaviours) + 1)..(Len(ToolBehaviours) + ParserReports)

\* the behaviours the sweep explores at every run
SweepTool == {1, 2, 3, 4}
\* the behaviour of a host on which every run succeeds
QuietTool == {1}

-----------------------------------------------------------------------------
(* monitor_processes: the resource sampler *)

\* #[derive(Default)] struct ProcessReport: cpu in tenths of a percent
ProcessReportDefault == [cpu |-> 0, mem |-> 0]
\* #[derive(Default)] struct ProcessesReport
ProcessesReportDefault ==
    [postgres |-> ProcessReportDefault, node |-> ProcessReportDefault,
     actix |-> ProcessReportDefault]

GroupPostgres == <<"p","o","s","t","g","r","e","s">>
GroupNode == <<"n","o","d","e">>
GroupActix == <<"a","c","t","i","x">>

\* an entry of processes(): ok says whether the entry is Ok, name_ok
\* whether p.name() is Ok
Proc(ok, name_ok, name, cpu, mem) ==
    [ok |-> ok, name_ok |-> name_ok, name |-> name, cpu |-> cpu, mem |-> mem]

\* one mebibyte, to write the resident sizes of the tables
Mebi == 1024 * 1024

TableBusy ==
    << Proc(TRUE, TRUE, <<"n","o","d","e","-","w","o","r","k","e","r","-","1">>,
            125, 40 * Mebi),
       Proc(TRUE, TRUE, <<"n","o","d","e","-","w","o","r","k","e","r","-","2">>,
            250, 30 * Mebi + 1),
       Proc(TRUE, TRUE, <<"p","o","s","t","g","r","e","s","-","m","a","i","n">>,
            75, 90 * Mebi),
       Proc(FALSE, TRUE, <<"n","o","d","e">>, 990, 7 * Mebi),
       Proc(TRUE, FALSE, <<"p","o","s","t","g","r","e","s">>, 880, 5 * Mebi),
       Proc(TRUE, TRUE, <<"N","o","d","e">>, 770, 3 * Mebi),
       Proc(TRUE, TRUE, <<"s","y","s","t","e","m","d">>, 10, 2 * Mebi) >>

TableIdle ==
    << Proc(TRUE, TRUE, <<"s","y","s","t","e","m","d">>, 10, 2 * Mebi) >>

ProcTables == {TableBusy, TableIdle}

\* processes()?.into_iter().filter_map(|p| p.ok()).collect()
snapshot(tbl) == SelectSeq(tbl, LAMBDA p : p.ok)

\* faulty variant of matches: the name must be the group name
matches_exact(p, name) == p.name_ok /\ p.name = name
\* |p| p.name().is_ok() && p.name().unwrap().contains(name)
matches(p, name) == p.name_ok /\ Contains(p.name, name)

\* faulty variant of fold_stats: a process that is gone counts as zero
\* (unwrap_or_default in place of unwrap)
RECURSIVE fold_stats_lenient(_, _, _, _, _)
fold_stats_lenient(ps, gone, name, i, acc) ==
    IF i > Len(ps) THEN [ok |-> TRUE, report |-> acc]
    ELSE IF ~matches(ps[i], name) \/ i \in gone
    THEN fold_stats_lenient(ps, gone, name, i + 1, acc)
    ELSE fold_stats_lenient(ps, gone, name, i + 1,
                            [cpu |-> acc.cpu + ps[i].cpu, mem |-> acc.mem + ps[i].mem])
\* the fold of proc_stats over ps[i..]: gone is the set of snapshot entries
\* whose cpu_percent() or memory_info() is an Err by now, so that unwrap()
\* panics
RECURSIVE fold_stats(_, _, _, _, _)
fold_stats(ps, gone, name, i, acc) ==
    IF i > Len(ps) THEN [ok |-> TRUE, report |-> acc]
    ELSE IF ~matches(ps[i], name) THEN fold_stats(ps, gone, name, i + 1, acc)
    ELSE IF i \in gone THEN [ok |-> FALSE]
    ELSE fold_stats(ps, gone, name, i + 1,
                    [cpu |-> acc.cpu + ps[i].cpu, mem |-> acc.mem + ps[i].mem])

proc_stats_of(ps, gone, name) == fold_stats(ps, gone, name, 1, ProcessReportDefault)

\* the ProcessesReport monitor_processes builds after the delay
monitor_report(ps, gone) ==
    LET pg == proc_stats_of(ps, gone, GroupPostgres)
        nd == proc_stats_of(ps, gone, GroupNode)
        ax == proc_stats_of(ps, gone, GroupActix)
    IN  IF pg.ok /\ nd.ok /\ ax.ok
        THEN [ok |-> TRUE,
              report |-> [postgres |-> pg.report, node |-> nd.report,
                          actix |-> ax.report]]
        ELSE [ok |-> FALSE]

-----------------------------------------------------------------------------
(* print_charts *)

\* struct Results
Result(t, name, conc, ps, ws) ==
    [test |-> t, name |-> name, concurrency |-> conc, proc_stats |-> ps,
     wrk_stats |-> ws]

Max(a, b) == IF a >= b THEN a ELSE b

\* the fold of line 126: acc.0.max(res.wrk_stats.latency) from 0f32
RECURSIVE max_lat(_)
max_lat(data) ==
    IF data = <<>> THEN F32Zero
    ELSE F32Max(max_lat(Slice(data, 1, Len(data))),
                data[Len(data)].wrk_stats.latency)

RECURSIVE max_rps(_)
max_rps(data) ==
    IF data = <<>> THEN 0
    ELSE Max(max_rps(Slice(data, 1, Len(data))), data[Len(data)].wrk_stats.rps)

\* faulty variant of GroupKey: the level is left out of the key
GroupKey_scenario(r) == <<r.test>>
GroupKey(r) == <<r.test, r.concurrency>>

\* Itertools::group_by: maximal runs of consecutive entries with equal keys
RECURSIVE group_by(_)
group_by(data) ==
    IF data = <<>> THEN <<>>
    ELSE LET rest == group_by(Tail(data))
         IN  IF rest # <<>> /\ GroupKey(Head(rest)[1]) = GroupKey(Head(data))
             THEN <<(<<Head(data)>> \o Head(rest))>> \o Tail(rest)
             ELSE <<(<<Head(data)>>)>> \o rest

\* (latency * width as f32 / max_lat) as usize + 1: when max_lat is 0 every
\* latency is 0 and 0/0 is NaN, which the cast takes to 0
lat_size(r, width, mx) ==
    (IF mx.m = 0 THEN 0
     ELSE F32ToUsize(F32Div(F32Mul(r.wrk_stats.latency, F32FromInt(width)), mx)))
    + 1

\* (rps * width / max_rps) as usize + 1: usize division, which panics on a
\* zero divisor
rps_panics(r, width, mx) == mx = 0
rps_size(r, width, mx) == (r.wrk_stats.rps * width) \div mx + 1

TitleLine(metric) == [kind |-> "title", metric |-> metric]
GroupLine(conc) == [kind |-> "group", concurrency |-> conc]
BarLine(name, size) == [kind |-> "bar", name |-> name, size |-> size]

\* the lines of one group of the latency pass
RECURSIVE lat_bars(_, _, _)
lat_bars(g, width, mx) ==
    IF g = <<>> THEN <<>>
    ELSE <<BarLine(Head(g).name, lat_size(Head(g), width, mx))>>
         \o lat_bars(Tail(g), width, mx)

RECURSIVE lat_pass(_, _, _)
lat_pass(gs, width, mx) ==
    IF gs = <<>> THEN <<>>
    ELSE <<GroupLine(Head(gs)[1].concurrency)>> \o lat_bars(Head(gs), width, mx)
         \o lat_pass(Tail(gs), width, mx)

RECURSIVE rps_bars(_, _, _)
rps_bars(g, width, mx) ==
    IF g = <<>> THEN <<>>
    ELSE <<BarLine(Head(g).name, rps_size(Head(g), width, mx))>>
         \o rps_bars(Tail(g), width, mx)

RECURSIVE rps_pass(_, _, _)
rps_pass(gs, width, mx) ==
    IF gs = <<>> THEN <<>>
    ELSE <<GroupLine(Head(gs)[1].concurrency)>> \o rps_bars(Head(gs), width, mx)
         \o rps_pass(Tail(gs), width, mx)

\* print_charts(data, width): the lines it prints, and whether it returns
\* (ok) or panics in the second pass, at the first bar of the first group
print_charts(data, width) ==
    LET gs    == group_by(data)
        first == <<TitleLine("latency")>> \o lat_pass(gs, width, max_lat(data))
                 \o <<TitleLine("rps")>>
    IN  IF data # <<>> /\ rps_panics(data[1], width, max_rps(data))
        THEN [ok |-> FALSE,
              out |-> first \o <<GroupLine(data[1].concurrency)>>]
        ELSE [ok |-> TRUE,
              out |-> first \o rps_pass(gs, width, max_rps(data))]

-----------------------------------------------------------------------------
(* main: the sweep *)

\* fn wrk(concurrency, url, delay): the command line of the child
wrk_command(concurrency, url, delay) ==
    [t |-> concurrency \div 10 + 1, c |-> concurrency, d |-> delay, url |-> url]

\* the future of Command::output(): state is "none" (no command built),
\* "spawn_failed" (spawn returned Err, which the future yields when awaited),
\* "running", "exited" or "killed"
NoChild == [state |-> "none", cmd |-> wrk_command(0, <<>>, 0), beh |-> 0,
            exit_at |-> 0]

\* faulty variant of output_ready: the output is taken without waiting for
\* the child to exit
output_ready_early(w) == w.state \in {"running", "exited"}
\* the future is ready when the child has exited
output_ready(w) == w.state = "exited"

\* the bytes captured from the child's standard output: all of them once it
\* has exited, none before
captured(w) ==
    IF w.beh = 0 THEN Behaviour(0, TRUE, <<>>) ELSE ToolBehaviour(w.beh)

\* faulty variant of await_output: the error of the spawn is swallowed
await_output_lenient(w) == [ok |-> TRUE, out |-> captured(w)]
\* wrk.await?: the Output of the child whatever its exit status, or the
\* error of the spawn
await_output(w) ==
    IF w.state = "spawn_failed" THEN [ok |-> FALSE]
    ELSE [ok |-> TRUE, out |-> captured(w)]

\* faulty variant of drop_wrk: kill_on_drop(false)
drop_wrk_nokill(w) == w
\* kill_on_drop(true): dropping the future kills a child that still runs
drop_wrk(w) == IF w.state = "running" THEN [w EXCEPT !.state = "killed"] ELSE w

\* what the log keeps of a printed line: its kind and what it is about (the
\* numeric columns of a row are those of the Results entry pushed with it)
HeaderLine == [kind |-> "header"]
StartLine(t) == [kind |-> "start", test |-> t]
LoadLine(conc) == [kind |-> "load", concurrency |-> conc]
RowLine(t, name, conc) ==
    [kind |-> "row", test |-> t, name |-> name, concurrency |-> conc]
RECURSIVE chart_lines(_, _)
chart_lines(t, out) ==
    IF out = <<>> THEN <<>>
    ELSE << [kind |-> "chart", test |-> t, line |-> Head(out).kind] >>
         \o chart_lines(t, Tail(out))

\* the numeric columns of the row println! formats: cpu / 100 with two
\* decimals (cpu is in tenths of a percent, the column in hundredths of
\* the unit, to the nearest), mem / 1024 / 1024
row_columns(ps, ws) ==
    [pg_cpu |-> (ps.postgres.cpu + 5) \div 10,
     pg_mem |-> (ps.postgres.mem \div 1024) \div 1024,
     nd_cpu |-> (ps.node.cpu + 5) \div 10,
     nd_mem |-> (ps.node.mem \div 1024) \div 1024,
     ax_cpu |-> (ps.actix.cpu + 5) \div 10,
     ax_mem |-> (ps.actix.mem \div 1024) \div 1024,
     lat |-> ws.latency, rps |-> ws.rps]

\* ceilings around the point where c *= 2 leaves u16
WideMC == {2^(U16Bits - 1), 2^(U16Bits - 1) + 1, U16Max}

Init ==
    /\ \/ /\ opt \in [max_concurrency : 1..MaxMC, monitor : BOOLEAN,
                      time : {MaxTime - 1, MaxTime}]
          /\ tool = SweepTool
       \/ /\ opt \in [max_concurrency : WideMC, monitor : {FALSE}, time : {1}]
          /\ tool = QuietTool
    /\ table \in ProcTables
    /\ pc = "header"
    /\ test = 1
    /\ c = 1
    /\ sol = 1
    /\ wrk = NoChild
    /\ alive = 0
    /\ now = 0
    /\ deadline = 0
    /\ procs = <<>>
    /\ proc_stats = ProcessesReportDefault
    /\ wrk_stats = WrkStatsDefault
    /\ results = <<>>
    /\ stdout = <<>>

\* an Err returned through `?`, or a panic that unwinds main: the locals
\* are dropped and the process ends
Abort ==
    /\ pc' = "failed"
    /\ wrk' = drop_wrk(wrk)
    /\ alive' = IF wrk.state = "running" /\ wrk'.state = "killed"
                THEN alive - 1 ELSE alive

\* line 159: the table header
Header ==
    /\ pc = "header"
    /\ stdout' = Append(stdout, HeaderLine)
    /\ pc' = "for_test"
    /\ UNCHANGED <<opt, tool, table, test, c, sol, wrk, alive, now, deadline, procs,
                   proc_stats, wrk_stats, results>>

\* faulty variant of ForTest: the table header is printed inside the loop,
\* with the marker of the scenario
ForTest_header ==
    /\ pc = "for_test"
    /\ IF test <= Len(Tests)
       THEN /\ stdout' = stdout \o <<HeaderLine, StartLine(Tests[test])>>
            /\ c' = 1
            /\ pc' = "while"
       ELSE /\ pc' = "done"
            /\ UNCHANGED <<stdout, c>>
    /\ UNCHANGED <<opt, tool, table, test, sol, wrk, alive, now, deadline, procs,
                   proc_stats, wrk_stats, results>>
\* lines 161-164: the next scenario, or the end of main
ForTest ==
    /\ pc = "for_test"
    /\ IF test <= Len(Tests)
       THEN /\ stdout' = Append(stdout, StartLine(Tests[test]))
            /\ c' = 1
            /\ pc' = "while"
       ELSE /\ pc' = "done"
            /\ UNCHANGED <<stdout, c>>
    /\ UNCHANGED <<opt, tool, table, test, sol, wrk, alive, now, deadline, procs,
                   proc_stats, wrk_stats, results>>

\* lines 166-168: the loop test, and the first backend of the level
While ==
    /\ pc = "while"
    /\ IF c < opt.max_concurrency
       THEN /\ stdout' = Append(stdout, LoadLine(c))
            /\ sol' = 1
            /\ pc' = "spawn"
       ELSE /\ pc' = "charts"
            /\ UNCHANGED <<stdout, sol>>
    /\ UNCHANGED <<opt, tool, table, test, c, wrk, alive, now, deadline, procs,
                   proc_stats, wrk_stats, results>>

\* faulty variant of after_spawn: the sampler runs whatever the flag
after_spawn_always(monitor) == "delay_half"
\* where main goes after wrk(..).output() (lines 171-176)
after_spawn(monitor) == IF monitor THEN "delay_half" ELSE "await_wrk"

\* lines 169-176: output() spawns the child at once and returns the future
\* that waits for it; with monitoring the half-time delay starts, without
\* it proc_stats is the default report
Spawn ==
    /\ pc = "spawn"
    /\ Len(results) < MaxResults
    /\ \/ /\ wrk' = [state |-> "running",
                     cmd |-> wrk_command(c, <<Sols[sol], Tests[test]>>, opt.time),
                     beh |-> 0, exit_at |-> 0]
          /\ alive' = alive + 1
       \/ /\ wrk' = [state |-> "spawn_failed",
                     cmd |-> wrk_command(c, <<Sols[sol], Tests[test]>>, opt.time),
                     beh |-> 0, exit_at |-> 0]
          /\ alive' = alive
    /\ now' = 0
    /\ pc' = after_spawn(opt.monitor)
    /\ deadline' = IF opt.monitor THEN opt.time \div 2 ELSE deadline
    /\ proc_stats' = ProcessesReportDefault
    /\ UNCHANGED <<opt, tool, table, test, c, sol, procs, wrk_stats, results, stdout>>

\* line 172: delay_for(time / 2) completes
DelayHalf ==
    /\ pc = "delay_half"
    /\ now >= deadline
    /\ pc' = "snapshot"
    /\ UNCHANGED <<opt, tool, table, test, c, sol, wrk, alive, now, deadline, procs,
                   proc_stats, wrk_stats, results, stdout>>

\* lines 56-61: the snapshot of the process table, then the 5 s delay;
\* processes()? may fail
Snapshot ==
    /\ pc = "snapshot"
    /\ \/ /\ procs' = snapshot(table)
          /\ deadline' = now + SettleSecs
          /\ pc' = "settle"
          /\ UNCHANGED <<wrk, alive>>
       \/ /\ Abort
          /\ UNCHANGED <<procs, deadline>>
    /\ UNCHANGED <<opt, tool, table, test, c, sol, now, proc_stats, wrk_stats,
                   results, stdout>>

\* line 61: delay_for(5 s) completes
Settle ==
    /\ pc = "settle"
    /\ now >= deadline
    /\ pc' = "proc_stats"
    /\ UNCHANGED <<opt, tool, table, test, c, sol, wrk, alive, now, deadline, procs,
                   proc_stats, wrk_stats, results, stdout>>

\* lines 63-79, 173: the three sums; a process of the snapshot that is gone
\* by now makes unwrap() panic (whether the sums panic depends only on
\* whether some process that is gone matches a group, so the sets of one
\* process stand for all sets)
ProcStats ==
    /\ pc = "proc_stats"
    /\ \E gone \in {{}} \cup {{i} : i \in 1..Len(procs)} :
          \E r \in {monitor_report(procs, gone)} :
              IF r.ok
              THEN /\ proc_stats' = r.report
                   /\ pc' = "await_wrk"
                   /\ UNCHANGED <<wrk, alive>>
              ELSE /\ Abort
                   /\ UNCHANGED proc_stats
    /\ procs' = <<>>
    /\ UNCHANGED <<opt, tool, table, test, c, sol, now, deadline, wrk_stats,
                   results, stdout>>

\* line 178: wrk.await? yields the Output of the exited child (whatever its
\* exit status) or the error of the spawn, or fails on an error of the wait
\* (first disjunct); process_wrk(..)? parses the captured bytes
AwaitWrk ==
    /\ pc = "await_wrk"
    /\ \/ /\ output_ready(wrk)
          /\ Abort
          /\ UNCHANGED wrk_stats
       \/ /\ wrk.state = "spawn_failed" \/ output_ready(wrk)
          /\ \E o \in {await_output(wrk)} :
             \E r \in {IF o.ok THEN process_wrk(o.out) ELSE o} :
                 IF r.ok
                 THEN /\ wrk_stats' = r.stats
                      /\ pc' = "emit"
                      /\ UNCHANGED <<wrk, alive>>
                 ELSE /\ Abort
                      /\ UNCHANGED wrk_stats
    /\ UNCHANGED <<opt, tool, table, test, c, sol, now, deadline, procs,
                   proc_stats, results, stdout>>

\* lines 180-197: the row, the push, and the next backend
Emit ==
    /\ pc = "emit"
    /\ stdout' = Append(stdout, RowLine(Tests[test], Sols[sol], c))
    /\ results' = Append(results,
                         Result(Tests[test], Sols[sol], c, proc_stats, wrk_stats))
    /\ wrk' = NoChild
    /\ alive' = alive
    /\ proc_stats' = ProcessesReportDefault
    /\ wrk_stats' = WrkStatsDefault
    /\ IF sol < Len(Sols)
       THEN sol' = sol + 1 /\ pc' = "spawn"
       ELSE sol' = sol /\ pc' = "double"
    /\ UNCHANGED <<opt, tool, table, test, c, now, deadline, procs>>

\* line 198: c *= 2 on a u16; past u16::MAX a build with overflow checks
\* panics and a build without them wraps
Double ==
    /\ pc = "double"
    /\ \/ /\ c * 2 <= U16Max
          /\ c' = c * 2
          /\ pc' = "while"
          /\ UNCHANGED <<wrk, alive>>
       \/ /\ c * 2 > U16Max
          /\ c' = (c * 2) % (2^U16Bits)
          /\ pc' = "while"
          /\ UNCHANGED <<wrk, alive>>
       \/ /\ c * 2 > U16Max
          /\ Abort
          /\ UNCHANGED c
    /\ UNCHANGED <<opt, tool, table, test, sol, now, deadline, procs, proc_stats,
                   wrk_stats, results, stdout>>

\* faulty variant of truncate: the list is left as it is
truncate_kept(v, len) == v
\* Vec::truncate(len)
truncate(v, len) == SubSeq(v, 1, len)

\* lines 201-202: the charts of the scenario, then the list is emptied
Charts ==
    /\ pc = "charts"
    /\ \E r \in {print_charts(results, ChartWidth)} :
           /\ stdout' = stdout \o chart_lines(Tests[test], r.out)
           /\ IF r.ok
              THEN /\ results' = truncate(results, 0)
                   /\ test' = test + 1
                   /\ pc' = "for_test"
                   /\ UNCHANGED <<wrk, alive>>
              ELSE /\ Abort
                   /\ UNCHANGED <<results, test>>
    /\ UNCHANGED <<opt, tool, table, c, sol, now, deadline, procs, proc_stats,
                   wrk_stats>>

\* the child ends: a run that succeeds lasts the whole measurement time, a
\* run that fails may end at any moment of it
ChildExit ==
    /\ wrk.state = "running"
    /\ \E b \in tool :
          /\ ToolBehaviour(b).status = 0 => now = opt.time
          /\ wrk' = [wrk EXCEPT !.state = "exited", !.beh = b, !.exit_at = now]
    /\ alive' = alive - 1
    /\ UNCHANGED <<opt, tool, table, pc, test, c, sol, now, deadline, procs,
                   proc_stats, wrk_stats, results, stdout>>

\* one second passes, while main is suspended on a delay that is not over
\* or on a child that still runs; a running child ends within its time
Tick ==
    /\ \/ pc \in {"delay_half", "settle"} /\ now < deadline
       \/ pc = "await_wrk" /\ wrk.state = "running"
    /\ wrk.state = "running" => now < opt.time
    /\ now' = now + 1
    /\ UNCHANGED <<opt, tool, table, pc, test, c, sol, wrk, alive, deadline, procs,
                   proc_stats, wrk_stats, results, stdout>>

Next ==
    \/ Header
    \/ ForTest
    \/ While
    \/ Spawn
    \/ DelayHalf
    \/ Snapshot
    \/ Settle
    \/ ProcStats
    \/ AwaitWrk
    \/ Emit
    \/ Double
    \/ Charts
    \/ ChildExit
    \/ Tick

Spec == Init /\ [][Next]_vars

-----------------------------------------------------------------------------
(* print_charts on its own: the lists a scenario can leave behind, with    *)
(* measurements other than those of the reports above                      *)

\* the measurements a run can give: no report at all, and the reports
\* "Latency 1.32ms" / "Requests/sec: 3", "Latency 2.00ms" / "Requests/sec:
\* 2", "Latency 3.00ms" / "Requests/sec: 3", and a report without latency
ChartStats ==
    { WrkStatsDefault,
      [latency |-> parse_f32(<<"1">>, <<"3", "2">>).val, rps |-> 3],
      [latency |-> parse_f32(<<"2">>, <<"0", "0">>).val, rps |-> 2],
      [latency |-> parse_f32(<<"3">>, <<"0", "0">>).val, rps |-> 3],
      [latency |-> F32Zero, rps |-> 2] }

\* the list of scenario t after the levels 1, 2, .. 2^(n-1), the run of
\* level i and backend k having measured ws[2 * (i - 1) + k]
SweepList(t, n, ws) ==
    [j \in 1..(n * Len(Sols)) |->
        Result(Tests[t], Sols[((j - 1) % Len(Sols)) + 1],
               2^((j - 1) \div Len(Sols)), ProcessesReportDefault, ws[j])]

\* main has left the while loop of a scenario
InitCharts ==
    /\ \E n \in 0..MaxChartLevels :
          /\ opt = [max_concurrency |-> 2^n, monitor |-> FALSE, time |-> 1]
          /\ c = 2^n
          /\ sol = IF n = 0 THEN 1 ELSE Len(Sols)
          /\ \E t \in 1..Len(Tests), ws \in [1..(n * Len(Sols)) -> ChartStats] :
                /\ test = t
                /\ results = SweepList(t, n, ws)
    /\ tool = QuietTool
    /\ table = TableIdle
    /\ pc = "charts"
    /\ wrk = NoChild
    /\ alive = 0
    /\ now = 0
    /\ deadline = 0
    /\ procs = <<>>
    /\ proc_stats = ProcessesReportDefault
    /\ wrk_stats = WrkStatsDefault
    /\ stdout = <<>>

\* line 201 alone: every line print_charts prints, with the length of the
\* bars; the list is left as it is
PrintCharts ==
    /\ pc = "charts"
    /\ LET r == print_charts(results, ChartWidth)
       IN  /\ stdout' = stdout \o r.out
           /\ pc' = IF r.ok THEN "charted" ELSE "failed"
    /\ UNCHANGED <<opt, tool, table, test, c, sol, wrk, alive, now, deadline,
                   procs, proc_stats, wrk_stats, results>>

NextCharts == PrintCharts

SpecCharts == InitCharts /\ [][NextCharts]_vars

-----------------------------------------------------------------------------
(* process_wrk on its own: a child that prints any of the reports of      *)
(* ParserBehaviours, or bytes process_wrk rejects                          *)

\* main waits for the child of the first run, whose time is over
InitParser ==
    /\ opt = [max_concurrency |-> 2, monitor |-> FALSE, time |-> 1]
    /\ tool = ParserTool \cup {3, 5}
    /\ table = TableIdle
    /\ pc = "await_wrk"
    /\ test = 1
    /\ c = 1
    /\ sol = 1
    /\ wrk = [state |-> "running",
              cmd |-> wrk_command(1, <<Sols[1], Tests[1]>>, 1),
              beh |-> 0, exit_at |-> 0]
    /\ alive = 1
    /\ now = 1
    /\ deadline = 0
    /\ procs = <<>>
    /\ proc_stats = ProcessesReportDefault
    /\ wrk_stats = WrkStatsDefault
    /\ results = <<>>
    /\ stdout = <<HeaderLine, StartLine(Tests[1]), LoadLine(1)>>

\* process_wrk(..) of line 178 alone, on the output of the exited child
ProcessWrk ==
    /\ pc = "await_wrk"
    /\ output_ready(wrk)
    /\ \E r \in {process_wrk(captured(wrk))} :
          IF r.ok
          THEN wrk_stats' = r.stats /\ pc' = "parsed"
          ELSE wrk_stats' = wrk_stats /\ pc' = "rejected"
    /\ UNCHANGED <<opt, tool, table, test, c, sol, wrk, alive, now, deadline,
                   procs, proc_stats, results, stdout>>

NextParser ==
    \/ ChildExit
    \/ ProcessWrk

SpecParser == InitParser /\ [][NextParser]_vars

-----------------------------------------------------------------------------
(* Properties of the sweep *)

\* the powers of two 1, 2, 4, ... strictly below m
PowersBelow(m) == {n \in {2^k : k \in 0..(U16Bits - 1)} : n < m}

Rows == SelectSeq(stdout, LAMBDA l : l.kind = "row")
Levels(rs) == {rs[i].concurrency : i \in 1..Len(rs)}
LastLine == stdout[Len(stdout)]

\* C1: for every max_concurrency, the levels at which runs are started are
\* exactly the powers of two below max_concurrency, in ascending order, and
\* max_concurrency itself is never a level.
C1_LevelsArePowersBelowCeiling ==
    /\ wrk.state # "none" => wrk.cmd.c \in PowersBelow(opt.max_concurrency)
    /\ Levels(results) \subseteq PowersBelow(opt.max_concurrency)
    /\ pc = "charts" => Levels(results) = PowersBelow(opt.max_concurrency)
    /\ \A i, j \in 1..Len(results) :
          i < j => results[i].concurrency <= results[j].concurrency

\* s is in sweep order: node then actix at the same scenario and level, then
\* node at a higher level of the scenario or at the next scenario
SweepOrdered(s) ==
    /\ s # <<>> => s[1].name = Sols[1]
    /\ \A i \in 1..(Len(s) - 1) :
          IF s[i].name = Sols[1]
          THEN /\ s[i + 1].name = Sols[2]
               /\ s[i + 1].test = s[i].test
               /\ s[i + 1].concurrency = s[i].concurrency
          ELSE /\ s[i + 1].name = Sols[1]
               /\ \/ /\ s[i + 1].test = s[i].test
                     /\ s[i + 1].concurrency > s[i].concurrency
                  \/ /\ s[i].test = Tests[1]
                     /\ s[i + 1].test = Tests[2]

\* C2: in every reachable state the result list and the printed rows are in
\* sweep order: concurrency strictly increases from one level to the next
\* and the node entry of a level is immediately followed by its actix entry.
C2_ResultsInSweepOrder == SweepOrdered(results) /\ SweepOrdered(Rows)

\* C3: at most one child of the harness is alive at any moment, and a run is
\* started only when the previous child is gone and its row is printed.
C3_RunsNeverOverlap ==
    /\ alive <= 1
    /\ pc = "spawn" =>
          /\ alive = 0
          /\ wrk.state = "none"
          /\ LastLine = IF sol = 1 THEN LoadLine(c)
                        ELSE RowLine(Tests[test], Sols[sol - 1], c)
C3_SecondRunAboutToStart == pc = "spawn" /\ sol = 2 /\ results # <<>>

\* C4 as stated: for every measurement time, when the sampling window ends
\* (main is about to read the process statistics) a child that runs for the
\* whole measurement time has not ended before that moment.
C4_WindowInsideRun ==
    (pc = "proc_stats" /\ wrk.state = "exited" /\ wrk.exit_at = opt.time)
        => now <= wrk.exit_at

\* C4 amended: the window ends time/2 + 5 seconds after the launch; when
\* time - time/2 >= 5 and the child runs for the whole measurement time, the
\* window ends no later than the run.
C4_WindowInsideFullLongRun ==
    pc = "proc_stats" =>
        /\ now = opt.time \div 2 + 5
        /\ (/\ opt.time - opt.time \div 2 >= 5
            /\ wrk.state = "exited"
            /\ wrk.exit_at = opt.time) => now <= wrk.exit_at
C4_WindowEndsWithRun ==
    /\ pc = "proc_stats"
    /\ wrk.state = "exited"
    /\ wrk.exit_at = opt.time
    /\ opt.time - opt.time \div 2 >= 5

RowAppended ==
    /\ Len(stdout') = Len(stdout) + 1
    /\ stdout'[Len(stdout')].kind = "row"

\* C5: a row is printed and a Results entry pushed only after the child of
\* the run has exited and, with monitoring, after the sampling of the run is
\* over (half the time plus the 5 s window have passed, the snapshot is
\* consumed).
C5_RowOnlyAfterRunAndSampling ==
    [][(RowAppended \/ Len(results') > Len(results)) =>
          /\ wrk.state = "exited"
          /\ alive = 0
          /\ opt.monitor => /\ now >= opt.time \div 2 + 5
                            /\ procs = <<>>]_vars
C5_RowAfterSampling ==
    /\ pc = "double"
    /\ opt.monitor
    /\ results # <<>>
    /\ results[Len(results)].proc_stats # ProcessesReportDefault

\* C6 as stated: a child that exits with a non-zero status never gets to the
\* row: the run is aborted.
C6_FailedExitAborts ==
    (wrk.state = "exited" /\ ToolBehaviours[wrk.beh].status # 0) => pc # "emit"

\* C6 amended: once the spawn of the child has failed nothing more is
\* printed or pushed and no child is started (the exit status of a child
\* that did run is not looked at).
C6_SpawnFailureAborts ==
    [][wrk.state = "spawn_failed" =>
          /\ stdout' = stdout
          /\ results' = results
          /\ alive' = alive
          /\ wrk'.state = "spawn_failed"
          /\ pc' \notin {"emit", "spawn", "charts", "done"}]_vars
C6_AbortedOnSpawnFailure ==
    pc = "failed" /\ wrk.state = "spawn_failed" /\ results # <<>>

\* the reports of ToolBehaviours that process_wrk must reject
FatalReports == {3, 4, 5}

\* a fatal failure has happened: the spawn failed, the child has left
\* output that cannot be decoded or converted, or main has ended on an
\* error (of the sampler among others)
Fault ==
    \/ pc = "failed"
    \/ wrk.state = "spawn_failed"
    \/ wrk.state = "exited" /\ wrk.beh \in FatalReports

\* C7: after a fatal failure no run is started, no row is printed, nothing
\* is pushed, no chart is printed, and the end of main is final.
C7_FatalFailureEndsSweep ==
    [][Fault =>
          /\ stdout' = stdout
          /\ results' = results
          /\ alive' <= alive
          /\ pc' \notin {"emit", "spawn", "charts", "done"}
          /\ pc = "failed" => pc' = "failed"]_vars
C7_AbortedOnBadReport ==
    /\ pc = "failed"
    /\ wrk.state = "exited"
    /\ wrk.beh \in FatalReports
    /\ results # <<>>

\* C8: when main has ended, normally or on a failure, none of its children
\* is alive: a child still running when the run is abandoned is killed.
C8_NoOrphanAtExit ==
    pc \in {"done", "failed"} => alive = 0 /\ wrk.state # "running"
C8_KilledOnAbort == pc = "failed" /\ wrk.state = "killed"

\* the chart titles printed for scenario t (two per call of print_charts)
Titles(t) ==
    Len(SelectSeq(stdout, LAMBDA l : l.kind = "chart" /\ l.test = Tests[t]
                                      /\ l.line = "title"))

\* C9: the list holds only results of the current scenario; the charts of a
\* scenario are printed once, after its last row, over exactly two entries
\* per tested level; the list is empty when the next scenario starts.
C9_ListHoldsCurrentScenario ==
    /\ \A i \in 1..Len(results) : results[i].test = Tests[test]
    /\ pc = "charts" =>
          Len(results) = 2 * Cardinality(PowersBelow(opt.max_concurrency))
    /\ pc = "for_test" => results = <<>>
    /\ (pc \in {"while", "spawn"} /\ c = 1 /\ sol = 1) => results = <<>>
    /\ \A t \in 1..Len(Tests) :
          Titles(t) = IF t < test \/ (t = test /\ pc = "failed" /\ Titles(t) # 0)
                      THEN 2 ELSE 0
    /\ \A i, j \in 1..Len(stdout) :
          (i < j /\ stdout[i].kind = "chart" /\ stdout[j].kind = "row")
              => stdout[i].test # stdout[j].test
    /\ pc = "done" => \A t \in 1..Len(Tests) : Titles(t) = 2
C9_SecondScenarioStartsEmpty ==
    /\ pc = "spawn"
    /\ test = 2
    /\ results = <<>>
    /\ Len(Rows) = 2 * Cardinality(PowersBelow(opt.max_concurrency))
    /\ Len(Rows) >= 4

\* C10: without monitoring main never waits half the time, never takes a
\* snapshot, never waits the 5 s, and every Results entry carries the
\* default (all-zero) ProcessesReport.
C10_NoSamplingWithoutMonitor ==
    ~opt.monitor =>
        /\ pc \notin {"delay_half", "snapshot", "settle", "proc_stats"}
        /\ procs = <<>>
        /\ proc_stats = ProcessesReportDefault
        /\ \A i \in 1..Len(results) :
              results[i].proc_stats = ProcessesReportDefault
C10_ResultsWithoutMonitor == ~opt.monitor /\ Len(results) >= 2

\* the entries of a list of groups, in order
RECURSIVE Flatten(_)
Flatten(gs) == IF gs = <<>> THEN <<>> ELSE Head(gs) \o Flatten(Tail(gs))

\* an entry of scenario 1 with no measurement
Entry(conc, name) ==
    Result(Tests[1], name, conc, ProcessesReportDefault, WrkStatsDefault)

\* C11: the grouping puts consecutive entries with the same (scenario,
\* concurrency) key in one group and keeps the order of the list (entries
\* with the same key that are not consecutive stay apart); the list
\* [(s1,1,A),(s1,1,B),(s1,2,A),(s1,2,B)] gives two groups of two; and the
\* list main hands to print_charts gives one group per level 1, 2, 4, ...
\* below the ceiling, in ascending order, each made of the entry of node
\* then the entry of actix.
C11_OneGroupPerLevel ==
    LET a1 == Entry(1, "node")
        b1 == Entry(1, "actix")
        a2 == Entry(2, "node")
        b2 == Entry(2, "actix")
    IN  /\ group_by(<<a1, b1, a2, b2>>) = << <<a1, b1>>, <<a2, b2>> >>
        /\ group_by(<<a1, a2, b1>>) = << <<a1>>, <<a2>>, <<b1>> >>
        /\ pc = "charts" =>
              LET gs == group_by(results)
              IN  /\ Flatten(gs) = results
                  /\ Len(gs) = Cardinality(PowersBelow(opt.max_concurrency))
                  /\ \A i \in 1..Len(gs) :
                        /\ Len(gs[i]) = Len(Sols)
                        /\ \A k \in 1..Len(Sols) :
                              /\ gs[i][k].name = Sols[k]
                              /\ gs[i][k].test = Tests[test]
                              /\ gs[i][k].concurrency = 2^(i - 1)

\* main is about to chart a scenario in which two levels were tested
C11_TwoLevelsToChart ==
    /\ pc = "charts"
    /\ Len(results) = 2 * Len(Sols)
    /\ Len(group_by(results)) = 2

-----------------------------------------------------------------------------
(* Properties of the charts *)

\* the bars among the printed lines, in the order they were printed
Bars(out) == SelectSeq(out, LAMBDA l : l.kind = "bar")

\* n / d rounded to the nearest integer, for integers n >= 0 and d > 0
RoundedRatio(n, d) == n \div d + (IF 2 * (n % d) >= d THEN 1 ELSE 0)

\* v * width / mx rounded to the nearest integer, for f32 0 <= v <= mx, mx > 0
\* and width < 128, computed on the exact values
RoundedShare(v, width, mx) ==
    LET dd == mx.e - v.e
    IN  IF v.m = 0 \/ dd >= 9 THEN 0
        ELSE IF dd = 0 THEN RoundedRatio(v.m * width, mx.m)
        ELSE ((v.m * width) \div (mx.m * 2^(dd - 1)) + 1) \div 2

\* C12: once the charts of a list are printed, the bar of every entry is
\* round(value * width / maximum of the list) + 1 characters long in the
\* latency pass and in the rps pass; every bar has between 1 and width + 1
\* characters, an entry with the maximum has width + 1 and an entry with
\* the value zero has 1.
C12_BarIsRoundedShare ==
    pc = "charted" =>
        LET bs == Bars(stdout)
            n  == Len(results)
            ml == max_lat(results)
            mr == max_rps(results)
        IN  /\ Len(bs) = 2 * n
            /\ \A i \in 1..n :
                  LET lat == results[i].wrk_stats.latency
                      rps == results[i].wrk_stats.rps
                  IN  /\ bs[i].size \in 1..(ChartWidth + 1)
                      /\ bs[n + i].size \in 1..(ChartWidth + 1)
                      /\ ml.m # 0 =>
                            bs[i].size = RoundedShare(lat, ChartWidth, ml) + 1
                      /\ mr # 0 =>
                            bs[n + i].size = RoundedRatio(rps * ChartWidth, mr) + 1
                      /\ ml.m # 0 /\ lat = ml => bs[i].size = ChartWidth + 1
                      /\ mr # 0 /\ rps = mr => bs[n + i].size = ChartWidth + 1
                      /\ lat.m = 0 => bs[i].size = 1
                      /\ rps = 0 => bs[n + i].size = 1

\* what holds of the bars: the quotient is cut, not rounded
C12_BarIsCutShare ==
    pc = "charted" =>
        LET bs == Bars(stdout)
            n  == Len(results)
            mr == max_rps(results)
        IN  /\ Len(bs) = 2 * n
            /\ \A i \in 1..n :
                  LET lat == results[i].wrk_stats.latency
                      rps == results[i].wrk_stats.rps
                  IN  /\ bs[i].size \in 1..(ChartWidth + 1)
                      /\ bs[n + i].size = (rps * ChartWidth) \div mr + 1
                      /\ lat.m = 0 => bs[i].size = 1

-----------------------------------------------------------------------------
(* Properties of the report parser *)

\* the lines of the report the exited child has printed
ReportLines == lines(captured(wrk).text)

\* the last line of ls that matches the pattern re, 0 when none does
LastMatch(ls, re(_)) ==
    IF \E i \in 1..Len(ls) : re(ls[i]).matched
    THEN CHOOSE i \in 1..Len(ls) :
            /\ re(ls[i]).matched
            /\ \A k \in (i + 1)..Len(ls) : ~re(ls[k]).matched
    ELSE 0

\* the latency, in milliseconds, a latency line states
LineLatency(line) ==
    LET m == latency_re(line)
    IN  scale_latency(parse_f32(m.whole, m.frac).val, m.unit)

\* the throughput a throughput line states
LineRps(line) == parse_usize(rps_re(line).digits).val

\* C13: when process_wrk returns, the latency is that of the last line of
\* the report that matches the latency pattern and the rps that of the
\* last line that matches the throughput pattern, a field with no matching
\* line is zero; and on a report in which no line matches either pattern
\* process_wrk returns (the zero WrkStats), it does not fail.
C13_LastMatchWins ==
    LET li == LastMatch(ReportLines, latency_re)
        ri == LastMatch(ReportLines, rps_re)
    IN  /\ pc = "parsed" =>
              /\ wrk_stats.latency =
                    IF li = 0 THEN F32Zero ELSE LineLatency(ReportLines[li])
              /\ wrk_stats.rps =
                    IF ri = 0 THEN 0 ELSE LineRps(ReportLines[ri])
        /\ (pc = "rejected" /\ captured(wrk).utf8) => li # 0 \/ ri # 0

\* a report with two latency lines that state different latencies and two
\* throughput lines that state different throughputs has been parsed
C13_ParsedRepeatedLines ==
    /\ pc = "parsed"
    /\ \E i, j \in 1..Len(ReportLines) :
          /\ i < j
          /\ latency_re(ReportLines[i]).matched
          /\ latency_re(ReportLines[j]).matched
          /\ LineLatency(ReportLines[i]) # LineLatency(ReportLines[j])
    /\ Len(ReportLines) = MaxReportLines
    /\ LastMatch(ReportLines, rps_re) # 0

\* the f32 nearest to 12.34, 1200, 0.3 and 2.5
F32_12_34 == [m |-> 12939428, e |-> -20]
F32_1200 == [m |-> 9830400, e |-> -13]
F32_0_3 == [m |-> 10066330, e |-> -25]
F32_2_5 == [m |-> 10485760, e |-> -22]

\* the report of one line has been parsed
ParsedOnly(line) == pc = "parsed" /\ ReportLines = <<line>>

\* C14 as claimed: the latency of a latency line is its number times 1000
\* for the unit "s", times 0.001 for the unit "us" and the number itself for
\* another unit: "12.34ms" gives 12.34, "1.200s" gives 1200.0, "300us"
\* gives 0.3 (and "300.00us" too, "2.50min" gives 2.5).
C14_UnitsNormalized ==
    /\ ParsedOnly(LineLatencyMs) => wrk_stats.latency = F32_12_34
    /\ ParsedOnly(LineLatencyS) => wrk_stats.latency = F32_1200
    /\ ParsedOnly(LineLatencyUs) => wrk_stats.latency = F32_0_3
    /\ ParsedOnly(LineBoth) => wrk_stats.latency = F32_2_5
    /\ ParsedOnly(LineLatencyWhole) => wrk_stats.latency = F32_0_3

\* C14 as amended: the same for a number written with a decimal point
\* ("12.34ms" gives 12.34, "1.200s" gives 1200.0, "300.00us" gives 0.3,
\* "2.50min" gives 2.5); a number without a decimal point is not taken
\* for a latency: "Latency 300us" leaves the latency at 0.
C14_DecimalUnitsNormalized ==
    /\ ParsedOnly(LineLatencyMs) => wrk_stats.latency = F32_12_34
    /\ ParsedOnly(LineLatencyS) => wrk_stats.latency = F32_1200
    /\ ParsedOnly(LineLatencyUs) => wrk_stats.latency = F32_0_3
    /\ ParsedOnly(LineBoth) => wrk_stats.latency = F32_2_5
    /\ ParsedOnly(LineLatencyWhole) => wrk_stats.latency = F32Zero

\* the report "Latency 300.00us ..." has been parsed
C14_MicrosecondsParsed == ParsedOnly(LineLatencyUs) /\ wrk_stats.latency # F32Zero

-----------------------------------------------------------------------------
(* Properties of the resource sampler *)

\* the entries of the process table that can be inspected and whose name
\* can be read and contains the group name
Matching(tbl, group) ==
    {i \in 1..Len(tbl) :
        tbl[i].ok /\ tbl[i].name_ok /\ Contains(tbl[i].name, group)}

\* the sum of f over a finite set of entries
RECURSIVE SumOver(_, _)
SumOver(S, f) ==
    IF S = {} THEN 0
    ELSE LET i == CHOOSE k \in S : TRUE
         IN  f[i] + SumOver(S \ {i}, f)

\* cpu and memory summed over the entries of the table that match the group
GroupTotal(tbl, group) ==
    [cpu |-> SumOver(Matching(tbl, group), [i \in 1..Len(tbl) |-> tbl[i].cpu]),
     mem |-> SumOver(Matching(tbl, group), [i \in 1..Len(tbl) |-> tbl[i].mem])]

\* main holds the report of the sampler for the current run
Sampled == opt.monitor /\ pc \in {"await_wrk", "emit"}

\* C15: the report of the sampler gives, for each of postgres, node and
\* actix, the sum of cpu and of resident memory over the processes whose
\* name contains the group name (case-sensitive), and zero for a group no
\* process matches; with node-worker-1, node-worker-2 and postgres-main in
\* the table, node is the sum of the first two, postgres is the third alone
\* and actix is zero.
C15_GroupsAreSubstringSums ==
    Sampled =>
        /\ proc_stats.postgres = GroupTotal(table, GroupPostgres)
        /\ proc_stats.node = GroupTotal(table, GroupNode)
        /\ proc_stats.actix = GroupTotal(table, GroupActix)
        /\ table = TableBusy =>
              /\ proc_stats.node =
                    [cpu |-> TableBusy[1].cpu + TableBusy[2].cpu,
                     mem |-> TableBusy[1].mem + TableBusy[2].mem]
              /\ proc_stats.postgres =
                    [cpu |-> TableBusy[3].cpu, mem |-> TableBusy[3].mem]
              /\ proc_stats.actix = ProcessReportDefault
        /\ table = TableIdle => proc_stats = ProcessesReportDefault

\* the sampler has reported on the busy table
C15_BusyTableSampled ==
    /\ Sampled
    /\ table = TableBusy
    /\ proc_stats.node.cpu = 375
    /\ pc = "emit"

-----------------------------------------------------------------------------
(* Properties of the printed table *)

\* the number of lines equal to l among the first n lines printed
PrintedBefore(l, n) == Len(SelectSeq(SubSeq(stdout, 1, n), LAMBDA x : x = l))

\* the places of the rows of scenario t in what was printed
RowsOf(t) ==
    {i \in 1..Len(stdout) : stdout[i].kind = "row" /\ stdout[i].test = Tests[t]}

\* C16 as claimed: for each scenario, its start marker and the column
\* header are each printed once, before the rows of the scenario: above a
\* row of the n-th scenario there are n headers, and one marker of that
\* scenario; no marker is printed twice.
C16_MarkerAndHeaderPerScenario ==
    \A t \in 1..Len(Tests) :
        /\ PrintedBefore(StartLine(Tests[t]), Len(stdout)) <= 1
        /\ \A i \in RowsOf(t) :
              /\ PrintedBefore(StartLine(Tests[t]), i) = 1
              /\ PrintedBefore(HeaderLine, i) = t

\* C16 as amended: the column header is printed once for the whole sweep,
\* as the first line; for each scenario its start marker is printed once,
\* before the rows of the scenario.
C16_HeaderOnceMarkerPerScenario ==
    /\ PrintedBefore(HeaderLine, Len(stdout)) <= 1
    /\ stdout # <<>> => stdout[1] = HeaderLine
    /\ \A t \in 1..Len(Tests) :
          /\ PrintedBefore(StartLine(Tests[t]), Len(stdout)) <= 1
          /\ \A i \in RowsOf(t) :
                /\ PrintedBefore(StartLine(Tests[t]), i) = 1
                /\ PrintedBefore(HeaderLine, i) = 1

\* a row of the second scenario has been printed
C16_RowOfSecondScenario == RowsOf(2) # {}

\* the totals of the three groups over the process table
Totals(tbl) ==
    [postgres |-> GroupTotal(tbl, GroupPostgres),
     node |-> GroupTotal(tbl, GroupNode),
     actix |-> GroupTotal(tbl, GroupActix)]

\* the entries of the snapshot the sums read: those whose name can be read
\* and contains a group name
ReadBySums(ps) ==
    {i \in 1..Len(ps) :
        /\ ps[i].name_ok
        /\ \E g \in {GroupPostgres, GroupNode, GroupActix} : Contains(ps[i].name, g)}

\* when the settling delay is over: whatever entries of the snapshot are
\* gone by now, the sums fail exactly when one of the entries they read is
\* gone, and give the totals of the table otherwise (an entry that could
\* not be inspected is not in the snapshot)
SamplerOutcomes ==
    pc = "proc_stats" =>
        /\ \A i \in 1..Len(procs) : procs[i].ok
        /\ \A gone \in SUBSET (1..Len(procs)) :
              LET r == monitor_report(procs, gone)
              IN  /\ r.ok <=> gone \cap ReadBySums(procs) = {}
                  /\ r.ok => r.report = Totals(table)

\* C17: an entry of the process table that cannot be inspected at the
\* snapshot, or whose name cannot be read, is left out: it adds nothing to
\* a group and cannot make the sampler fail; a process of the snapshot
\* whose cpu or memory cannot be read after the settling delay ends the
\* sweep: the sampler either fails or reports the full totals, it never
\* counts such a process as zero.
C17_SkippedAtSnapshotFatalAtRead ==
    /\ []SamplerOutcomes
    /\ [][(pc = "proc_stats" /\ pc' # "proc_stats") =>
              \/ pc' = "failed"
              \/ pc' = "await_wrk" /\ proc_stats' = Totals(table)]_vars

\* the sweep has ended on a read that failed after the settling delay, on
\* a table that holds entries that cannot be inspected
C17_AbortedOnReadFailure ==
    /\ pc = "failed"
    /\ opt.monitor
    /\ table = TableBusy
    /\ deadline = opt.time \div 2 + 5
    /\ now >= deadline
    /\ proc_stats = ProcessesReportDefault
    /\ results # <<>>

-----------------------------------------------------------------------------
(* Properties of the counter and of the charts *)

\* C18: for every ceiling a u16 can hold, the counter doubles without
\* leaving u16: it is always one of 1, 2, 4, ... 32768, the doubling of
\* line 198 never overflows, and so a scenario tests at most 16 levels
\* before its loop ends.
C18_CounterNeverOverflows ==
    /\ c \in {2^k : k \in 0..(U16Bits - 1)}
    /\ pc = "double" => c * 2 <= U16Max
    /\ Len(results) <= U16Bits * Len(Sols)

\* C19: print_charts returns for every list main hands to it: the step
\* of line 201 never ends the sweep.
C19_ChartsNeverFail == [][pc = "charts" => pc' # "failed"]_vars

=============================================================================
